---- MODULE Spec2Model ----
(***************************************************************************)
(* Model of mapper.py: the pipeline run by main() over a list of photos    *)
(* sorted by date: create_date_slices (lazy day slices), one call of       *)
(* filter_nearby_photos per slice, one call of get_curr_extent per         *)
(* filtered slice that is rendered, then create_gif.                       *)
(*                                                                         *)
(* Representation.  Coordinates are integers counting thousandths of a     *)
(* degree.  Dates are integers counting ticks, TicksPerDay ticks to the    *)
(* day.  The floating point values of get_curr_extent are exact rationals  *)
(* <<numerator, denominator>> in lowest terms, in thousandths of a degree. *)
(***************************************************************************)
EXTENDS Integers, Sequences, FiniteSets, TLC

\* ---------------------------------------------------------------- bounds
MaxPhotos == 4
MaxDate == 4
TicksPerDay == 2

\* ------------------------------------------------------- configuration
\* FILTER_DISTANCE, kilometres (default of line 33)
FILTER_DISTANCE == 10

\* thousandths of a degree in one degree: the unit of Photo.coords
MilliDeg == 1000

\* values of the environment variable IMAGE_RATIO, as rationals; 16/9 is
\* the default
Ratios == {<<16, 9>>, <<1, 20>>}

\* the places <<latitude, longitude>> of the photos, in thousandths of a
\* degree: three places 0.06 degrees apart on the equator and one place at
\* latitude 1.55, where cos(latitude) is small and the threshold is wide
Places == {<<0, 0>>, <<0, 60>>, <<0, 120>>, <<1550, 0>>}
Dates == 0..MaxDate

VARIABLES
    IMAGE_RATIO,        \* the configured ratio, a rational
    photos,             \* sorted_photos of main
    pc,                 \* position of main
    day_index,          \* create_date_slices: index of the next day in days
    last_number_photos, \* create_date_slices: local of the generator
    slices,             \* the prefixes yielded so far, in order
    filtered_photos,    \* main: filtered_photos
    map_index,          \* main: position of the "Creating Maps" loop
    created_images,     \* main: created_images (a path is named by a date)
    saved,              \* paths written by plt.savefig during this run
    extents             \* per frame: the extent handed to set_extent, or NoExtent

vars == <<IMAGE_RATIO, photos, pc, day_index, last_number_photos, slices,
          filtered_photos, map_index, created_images, saved, extents>>

\* ------------------------------------------------------------ rationals
abs(x) == IF x < 0 THEN -x ELSE x

RECURSIVE GCD(_, _)
GCD(a, b) == IF b = 0 THEN a ELSE GCD(b, a % b)

\* the rational n/d (d # 0) in lowest terms with a positive denominator
Rat(n, d) ==
    LET g == GCD(abs(n), abs(d))
        s == IF d < 0 THEN -1 ELSE 1
    IN  <<(s * n) \div g, (s * d) \div g>>

RAdd(a, b) == Rat(a[1] * b[2] + b[1] * a[2], a[2] * b[2])
RSub(a, b) == Rat(a[1] * b[2] - b[1] * a[2], a[2] * b[2])
RMul(a, b) == Rat(a[1] * b[1], a[2] * b[2])
RDiv(a, b) == Rat(a[1] * b[2], a[2] * b[1])
RLess(a, b) == a[1] * b[2] < b[1] * a[2]
RLeq(a, b) == a[1] * b[2] <= b[1] * a[2]

SetMin(S) == CHOOSE x \in S : \A y \in S : x <= y
SetMax(S) == CHOOSE x \in S : \A y \in S : x >= y

\* ----------------------------------------------------------------- Photo
\* Photo.__lt__ / sorted(photos): ascending by date
IsSorted(ds) == \A i \in DOMAIN ds : \A j \in DOMAIN ds : i < j => ds[i] <= ds[j]

\* ------------------------------------------------------ temporal slicing
RECURSIVE filter_dates(_, _)
filter_dates(ps, threshold_date) ==
    IF ps = <<>> THEN <<>>
    ELSE IF Head(ps).date < threshold_date
         THEN <<Head(ps)>> \o filter_dates(Tail(ps), threshold_date)
         ELSE <<>>

\* the list days of create_date_slices
days(ps) ==
    LET start_date == ps[1].date
        end_date == ps[Len(ps)].date
    IN  [x \in 1..((end_date - start_date) \div TicksPerDay) |->
            start_date + x * TicksPerDay]

\* mutant: every day boundary yields
should_yield_always(last, current) == TRUE

\* the test of line 101
should_yield(last, current) == last # current

\* ---------------------------------------------------- spatial filtering
\* math.cos of a latitude given in thousandths, result in thousandths:
\* cos(0) = 1.000, cos(1.55) = 0.021
cos(latitude) ==
    CASE latitude = 0 -> 1000
      [] latitude = 1550 -> 21

km_to_degrees(latitude, km) ==
    LET degrees_lat == (km * 100 * MilliDeg) \div 11112
        degrees_lon == (km * 100 * MilliDeg * 1000) \div (11112 * cos(latitude))
    IN  <<degrees_lat, degrees_lon>>

Max2(a, b) == IF a >= b THEN a ELSE b

\* mutant: the longitude threshold is ignored
threshold_deg_lat_only(ps) == km_to_degrees(ps[1].coords[1], FILTER_DISTANCE)[1]

\* mutant: the reference latitude is the one of the last photo
threshold_deg_last(ps) ==
    LET t == km_to_degrees(ps[Len(ps)].coords[1], FILTER_DISTANCE)
    IN  Max2(t[1], t[2])

\* lines 234-235
threshold_deg(ps) ==
    LET t == km_to_degrees(ps[1].coords[1], FILTER_DISTANCE)
    IN  Max2(t[1], t[2])

\* squared Euclidean distance in degree space
dist2(p, q) == (p[1] - q[1]) * (p[1] - q[1]) + (p[2] - q[2]) * (p[2] - q[2])

\* cKDTree.query_ball_point: the indices of the points within r of x
query_ball_point(points, x, r) ==
    {j \in DOMAIN points : r >= 0 /\ dist2(points[j], x) <= r * r}

\* mutant: the scan does not skip suppressed indices
RECURSIVE scan_no_skip(_, _, _, _)
scan_no_skip(points, r, i, filtered_indices) ==
    IF i > Len(points) THEN filtered_indices
    ELSE scan_no_skip(points, r, i + 1,
            (filtered_indices \cup query_ball_point(points, points[i], r)) \ {i})

\* mutant: the scan does not exclude the scanned point itself
RECURSIVE scan_no_discard(_, _, _, _)
scan_no_discard(points, r, i, filtered_indices) ==
    IF i > Len(points) THEN filtered_indices
    ELSE IF i \in filtered_indices
         THEN scan_no_discard(points, r, i + 1, filtered_indices)
         ELSE scan_no_discard(points, r, i + 1,
                filtered_indices \cup query_ball_point(points, points[i], r))

\* the loop of lines 237-243, from index i on
RECURSIVE scan(_, _, _, _)
scan(points, r, i, filtered_indices) ==
    IF i > Len(points) THEN filtered_indices
    ELSE IF i \in filtered_indices
         THEN scan(points, r, i + 1, filtered_indices)
         ELSE scan(points, r, i + 1,
                (filtered_indices \cup query_ball_point(points, points[i], r)) \ {i})

\* line 246: the photos whose index is not suppressed, in order
RECURSIVE keep(_, _, _)
keep(ps, filtered_indices, i) ==
    IF i > Len(ps) THEN <<>>
    ELSE (IF i \in filtered_indices THEN <<>> ELSE <<ps[i]>>)
            \o keep(ps, filtered_indices, i + 1)

filter_nearby_photos(ps) ==
    LET points == [i \in DOMAIN ps |-> ps[i].coords]
    IN  keep(ps, scan(points, threshold_deg(ps), 1, {}), 1)

\* ------------------------------------------------------------- extent
\* lines 266-267: the half extents with the margin, <<veclat, veclong>>
side_vectors(ps) ==
    LET lats == {ps[i].coords[1] : i \in DOMAIN ps}
        longs == {ps[i].coords[2] : i \in DOMAIN ps}
    IN  <<Rat(abs(SetMax(lats) - SetMin(lats)) * 11, 20),
          Rat(abs(SetMax(longs) - SetMin(longs)) * 11, 20)>>

\* lines 270-272
small_square(vec) ==
    IF vec[1] = <<0, 1>> \/ vec[2] = <<0, 1>>
    THEN <<Rat(MilliDeg, 2), Rat(MilliDeg, 2)>>
    ELSE vec

\* mutant: the ratio step is missing
set_ratio_none(vec) == vec

\* mutant: the second branch of the ratio step is missing
set_ratio_first_only(vec) ==
    IF RLess(vec[1], RDiv(vec[2], IMAGE_RATIO))
    THEN <<RDiv(vec[2], IMAGE_RATIO), vec[2]>>
    ELSE vec

\* lines 275-278
set_ratio(vec) ==
    IF RLess(vec[1], RDiv(vec[2], IMAGE_RATIO))
    THEN <<RDiv(vec[2], IMAGE_RATIO), vec[2]>>
    ELSE IF RLess(vec[2], RMul(vec[1], IMAGE_RATIO))
         THEN <<vec[1], RMul(vec[1], IMAGE_RATIO)>>
         ELSE vec

\* the result is <<minlong, maxlong, minlat, maxlat>>
get_curr_extent(ps) ==
    LET lats == {ps[i].coords[1] : i \in DOMAIN ps}
        longs == {ps[i].coords[2] : i \in DOMAIN ps}
        centerlat == Rat(SetMin(lats) + SetMax(lats), 2)
        centerlong == Rat(SetMin(longs) + SetMax(longs), 2)
        vec == set_ratio(small_square(side_vectors(ps)))
    IN  <<RSub(centerlong, vec[2]), RAdd(centerlong, vec[2]),
          RSub(centerlat, vec[1]), RAdd(centerlat, vec[1])>>

NoExtent == <<>>

\* ------------------------------------------------------------ the run
\* the state of main after sorted(photos), line 113
Init ==
    /\ IMAGE_RATIO \in Ratios
    /\ \E n \in 1..MaxPhotos :
         \E cs \in [1..n -> Places] :
           \E ds \in [1..n -> Dates] :
             /\ IsSorted(ds)
             /\ photos = [i \in 1..n |->
                            [filename |-> i, coords |-> cs[i], date |-> ds[i]]]
    /\ pc = "slicing"
    /\ day_index = 1
    /\ last_number_photos = 0
    /\ slices = <<>>
    /\ filtered_photos = <<>>
    /\ map_index = 1
    /\ created_images = <<>>
    /\ saved = {}
    /\ extents = <<>>

\* one iteration of the loop of create_date_slices (lines 96-103)
NextDay ==
    /\ pc = "slicing"
    /\ day_index <= Len(days(photos))
    /\ LET photos_before == filter_dates(photos, days(photos)[day_index])
           current_number_photos == Len(photos_before)
       IN  IF should_yield(last_number_photos, current_number_photos)
           THEN /\ last_number_photos' = current_number_photos
                /\ slices' = Append(slices, photos_before)
                /\ pc' = "filtering"
           ELSE UNCHANGED <<last_number_photos, slices, pc>>
    /\ day_index' = day_index + 1
    /\ UNCHANGED <<IMAGE_RATIO, photos, filtered_photos, map_index,
                   created_images, saved, extents>>

\* the body of the loop of main over the yielded slice (lines 118-119)
FilterSlice ==
    /\ pc = "filtering"
    /\ filtered_photos' =
         Append(filtered_photos, filter_nearby_photos(slices[Len(slices)]))
    /\ pc' = "slicing"
    /\ UNCHANGED <<IMAGE_RATIO, photos, day_index, last_number_photos, slices,
                   map_index, created_images, saved, extents>>

\* the generator is exhausted: main goes on to the maps
SlicesDone ==
    /\ pc = "slicing"
    /\ day_index > Len(days(photos))
    /\ pc' = "mapping"
    /\ UNCHANGED <<IMAGE_RATIO, photos, day_index, last_number_photos, slices,
                   filtered_photos, map_index, created_images, saved, extents>>

\* one iteration of the loop of lines 122-156; present_before tells whether
\* the export folder held the file before the run
CreateMap ==
    /\ pc = "mapping"
    /\ map_index <= Len(filtered_photos)
    /\ \E present_before \in BOOLEAN :
         LET filtered == filtered_photos[map_index]
             path == filtered[Len(filtered)].date
         IN  /\ created_images' = Append(created_images, path)
             /\ IF present_before \/ path \in saved
                THEN /\ extents' = Append(extents, NoExtent)
                     /\ saved' = saved
                ELSE /\ extents' = Append(extents, get_curr_extent(filtered))
                     /\ saved' = saved \cup {path}
    /\ map_index' = map_index + 1
    /\ UNCHANGED <<IMAGE_RATIO, photos, pc, day_index, last_number_photos,
                   slices, filtered_photos>>

\* line 158
CreateGif ==
    /\ pc = "mapping"
    /\ map_index > Len(filtered_photos)
    /\ pc' = "done"
    /\ UNCHANGED <<IMAGE_RATIO, photos, day_index, last_number_photos, slices,
                   filtered_photos, map_index, created_images, saved, extents>>

Next == NextDay \/ FilterSlice \/ SlicesDone \/ CreateMap \/ CreateGif

Spec == Init /\ [][Next]_vars

\* ---------------------------------------------------------- properties
Last(s) == s[Len(s)]

IsPrefix(s, t) == Len(s) <= Len(t) /\ s = SubSeq(t, 1, Len(s))

\* the threshold radius of a dedup pass over ps: the max of the latitude and
\* longitude thresholds at the latitude of the first photo
ThresholdRadius(ps) ==
    LET t == km_to_degrees(ps[1].coords[1], FILTER_DISTANCE)
    IN  IF t[1] >= t[2] THEN t[1] ELSE t[2]

\* p and q lie within r of one another, in degree space, boundary included
Within(p, q, r) == r >= 0 /\ dist2(p, q) <= r * r

Returned(photo, out) == \E m \in DOMAIN out : out[m].filename = photo.filename

\* C1: once the slicing has ended with at least one prefix emitted, the last
\* emitted prefix has as many photos as the full list
C1_LastSliceComplete ==
    (pc \in {"mapping", "done"} /\ slices # <<>>) =>
        Len(Last(slices)) = Len(photos)

\* C2: every emitted prefix is a prefix of the photo list, has strictly more
\* photos than the one emitted before it and ends with a strictly later photo
\* (so no prefix is emitted at a day boundary with an unchanged count)
C2_SlicingMonotonic ==
    \A k \in DOMAIN slices :
        /\ IsPrefix(slices[k], photos)
        /\ k > 1 =>
            /\ Len(slices[k]) > Len(slices[k - 1])
            /\ Len(slices[k - 1]) > 0
            /\ Last(slices[k]).date > Last(slices[k - 1]).date

\* two prefixes have been emitted and the run has ended
C2_Witness ==
    /\ pc = "done"
    /\ Len(slices) >= 2

\* C3: no two distinct photos returned by filter_nearby_photos lie within
\* the threshold radius of the pass of one another
C3_SurvivorsApart ==
    \A k \in DOMAIN filtered_photos :
        LET out == filtered_photos[k]
            r == ThresholdRadius(slices[k])
        IN  \A i \in DOMAIN out : \A j \in DOMAIN out :
                i < j => ~Within(out[i].coords, out[j].coords, r)

C3_Witness ==
    \E k \in DOMAIN filtered_photos :
        /\ Len(filtered_photos[k]) >= 2
        /\ Len(filtered_photos[k]) < Len(slices[k])

\* C4: filter_nearby_photos applied to its own output returns that output
C4_DedupIdempotent ==
    \A k \in DOMAIN filtered_photos :
        filter_nearby_photos(filtered_photos[k]) = filtered_photos[k]

C4_Witness ==
    \E k \in DOMAIN filtered_photos :
        /\ Len(filtered_photos[k]) >= 2
        /\ ~Returned(Last(slices[k]), filtered_photos[k])

\* the half extents with the 10% margin, before the ratio step
PaddedLat(ps) ==
    Rat(11 * (SetMax({ps[i].coords[1] : i \in DOMAIN ps})
              - SetMin({ps[i].coords[1] : i \in DOMAIN ps})), 20)
PaddedLong(ps) ==
    Rat(11 * (SetMax({ps[i].coords[2] : i \in DOMAIN ps})
              - SetMin({ps[i].coords[2] : i \in DOMAIN ps})), 20)

Rendered(k) == k \in DOMAIN extents /\ extents[k] # NoExtent

\* C5: when the photos differ in latitude and in longitude, the width of the
\* box is IMAGE_RATIO times its height and each half extent is at least the
\* padded half extent
C5_ExtentRatio ==
    \A k \in DOMAIN extents :
        (/\ Rendered(k)
         /\ PaddedLat(filtered_photos[k]) # <<0, 1>>
         /\ PaddedLong(filtered_photos[k]) # <<0, 1>>) =>
            LET e == extents[k]
                width == RSub(e[2], e[1])
                height == RSub(e[4], e[3])
            IN  /\ width = RMul(IMAGE_RATIO, height)
                /\ RLeq(PaddedLat(filtered_photos[k]), RDiv(height, <<2, 1>>))
                /\ RLeq(PaddedLong(filtered_photos[k]), RDiv(width, <<2, 1>>))

\* both axes differ and the ratio step has grown the height
C5_Witness ==
    \E k \in DOMAIN extents :
        /\ Rendered(k)
        /\ PaddedLat(filtered_photos[k]) # <<0, 1>>
        /\ PaddedLong(filtered_photos[k]) # <<0, 1>>
        /\ RLess(PaddedLat(filtered_photos[k]),
                 RDiv(RSub(extents[k][4], extents[k][3]), <<2, 1>>))

\* C6 as stated: with the ratio 16/9 the box of a single photo is 0.5
\* degrees around it in both axes
C6_SinglePointSquare ==
    \A k \in DOMAIN extents :
        (Rendered(k) /\ Len(filtered_photos[k]) = 1 /\ IMAGE_RATIO = <<16, 9>>) =>
            LET lat == filtered_photos[k][1].coords[1]
                long == filtered_photos[k][1].coords[2]
            IN  extents[k] = <<Rat(long - 500, 1), Rat(long + 500, 1),
                               Rat(lat - 500, 1), Rat(lat + 500, 1)>>

\* C6 amended: with the ratio 16/9 the box of a single photo is 0.5 degrees
\* around it in latitude and 0.5 * 16/9 = 8/9 degrees in longitude
C6_SinglePointBox ==
    \A k \in DOMAIN extents :
        (Rendered(k) /\ Len(filtered_photos[k]) = 1 /\ IMAGE_RATIO = <<16, 9>>) =>
            LET lat == filtered_photos[k][1].coords[1]
                long == filtered_photos[k][1].coords[2]
            IN  extents[k] = <<Rat(9 * long - 8000, 9), Rat(9 * long + 8000, 9),
                               Rat(lat - 500, 1), Rat(lat + 500, 1)>>

C6_Witness ==
    \E k \in DOMAIN extents :
        Rendered(k) /\ Len(filtered_photos[k]) = 1 /\ IMAGE_RATIO = <<16, 9>>

\* C7: the markers of an earlier frame are a prefix of the markers of every
\* later frame
C7_FramesGrow ==
    \A a \in DOMAIN filtered_photos : \A b \in DOMAIN filtered_photos :
        a < b => IsPrefix(filtered_photos[a], filtered_photos[b])

\* a later frame with a new marker and a suppressed photo
C7_Witness ==
    \E a \in DOMAIN filtered_photos : \E b \in DOMAIN filtered_photos :
        /\ a < b
        /\ Len(filtered_photos[a]) < Len(filtered_photos[b])
        /\ Len(filtered_photos[b]) < Len(slices[b])

\* C8: every emitted prefix and every marker list handed to the map loop
\* holds at least one photo
C8_FramesNonEmpty ==
    /\ \A k \in DOMAIN slices : Len(slices[k]) >= 1
    /\ \A k \in DOMAIN filtered_photos : Len(filtered_photos[k]) >= 1

C8_Witness ==
    /\ pc = "done"
    /\ Len(filtered_photos) >= 2
    /\ \E k \in DOMAIN extents : Rendered(k)

\* C9: the first photo is returned, the returned photos are photos of the
\* input in input order, and every photo not returned lies within the
\* threshold radius of a returned photo that comes earlier in the input
C9_FirstSeenCovers ==
    \A k \in DOMAIN filtered_photos :
        LET in == slices[k]
            out == filtered_photos[k]
            r == ThresholdRadius(in)
        IN  /\ out # <<>> /\ out[1] = in[1]
            /\ \A m \in DOMAIN out : out[m] = in[out[m].filename]
            /\ \A m \in DOMAIN out : \A n \in DOMAIN out :
                    m < n => out[m].filename < out[n].filename
            /\ \A j \in DOMAIN in :
                    ~Returned(in[j], out) =>
                        \E m \in DOMAIN out :
                            /\ out[m].filename < in[j].filename
                            /\ Within(out[m].coords, in[j].coords, r)

\* a photo is suppressed by a survivor other than the first photo: it is
\* not returned and it lies outside the radius of the first photo
C9_Witness ==
    \E k \in DOMAIN filtered_photos :
        \E j \in DOMAIN slices[k] :
            /\ ~Returned(slices[k][j], filtered_photos[k])
            /\ ~Within(slices[k][1].coords, slices[k][j].coords,
                       ThresholdRadius(slices[k]))

\* C10: the box handed to set_extent contains every photo of the frame
C10_ExtentContains ==
    \A k \in DOMAIN extents :
        Rendered(k) =>
            \A i \in DOMAIN filtered_photos[k] :
                LET lat == filtered_photos[k][i].coords[1]
                    long == filtered_photos[k][i].coords[2]
                    e == extents[k]
                IN  /\ RLeq(e[1], <<long, 1>>) /\ RLeq(<<long, 1>>, e[2])
                    /\ RLeq(e[3], <<lat, 1>>) /\ RLeq(<<lat, 1>>, e[4])

====
